---- MODULE Spec2Model ----
(***************************************************************************)
(* A model of teip (src/src/main.rs): the selection engine that cuts a     *)
(* record into pass-through and selected segments, and the forwarding      *)
(* engine (PipeIntercepter) that routes the selected segments through a    *)
(* command and reassembles the output in input order.                      *)
(*                                                                         *)
(* Bytes are numbers 0..255, a String is a sequence of code points.        *)
(***************************************************************************)
EXTENDS Integers, Sequences, FiniteSets, TLC

\* ------------------------------------------------------------------ bounds
\* longest record or buffer (bytes) handed to the selection engine
MaxLen == 4
\* largest endpoint of a range of a Range Set
MaxRange == 3
\* longest input (bytes) of a run of the forwarding engine
MaxInput == 3
\* capacity, in bytes, of an OS pipe and of a BufWriter
Cap == 2

\* ------------------------------------------------------- program constants
LF == 10
NUL == 0
CR == 13

\* ------------------------------------------------------------ small helpers
Min(S) == CHOOSE x \in S : \A y \in S : x <= y

RECURSIVE SeqsUpTo(_, _)
SeqsUpTo(S, n) ==
    IF n = 0 THEN {<<>>}
    ELSE LET P == SeqsUpTo(S, n - 1)
         IN  P \cup {Append(s, x) : s \in {t \in P : Len(t) = n - 1}, x \in S}

RECURSIVE Flatten(_)
Flatten(ss) == IF ss = <<>> THEN <<>> ELSE Head(ss) \o Flatten(Tail(ss))

IsPrefix(p, s) == Len(p) <= Len(s) /\ SubSeq(s, 1, Len(p)) = p

\* &line[l..r] with 0-based offsets l <= r
Slice(line, l, r) == SubSeq(line, l + 1, r)

\* ------------------------------------------------------------ UTF-8 strings
\* String::from_utf8_lossy: one- and two- and three-byte sequences decode to
\* their code point, every other byte becomes U+FFFD.
IsCont(b) == 128 <= b /\ b <= 191

RECURSIVE from_utf8_lossy(_)
from_utf8_lossy(b) ==
    IF b = <<>> THEN <<>>
    ELSE IF b[1] < 128 THEN <<b[1]>> \o from_utf8_lossy(Tail(b))
    ELSE IF 194 <= b[1] /\ b[1] <= 223 /\ Len(b) >= 2 /\ IsCont(b[2])
         THEN <<(b[1] - 192) * 64 + (b[2] - 128)>>
                  \o from_utf8_lossy(SubSeq(b, 3, Len(b)))
    ELSE IF 225 <= b[1] /\ b[1] <= 239 /\ Len(b) >= 3 /\ IsCont(b[2]) /\ IsCont(b[3])
         THEN <<(b[1] - 224) * 4096 + (b[2] - 128) * 64 + (b[3] - 128)>>
                  \o from_utf8_lossy(SubSeq(b, 4, Len(b)))
    ELSE <<65533>> \o from_utf8_lossy(Tail(b))

\* str::as_bytes: the UTF-8 encoding of a String
RECURSIVE as_bytes(_)
as_bytes(s) ==
    IF s = <<>> THEN <<>>
    ELSE (IF s[1] < 128 THEN <<s[1]>>
          ELSE IF s[1] < 2048 THEN <<192 + (s[1] \div 64), 128 + (s[1] % 64)>>
          ELSE <<224 + (s[1] \div 4096), 128 + ((s[1] \div 64) % 64), 128 + (s[1] % 64)>>)
         \o as_bytes(Tail(s))

\* ----------------------------------------------------------------- trim_eol
ends_with(buf, suf) ==
    Len(buf) >= Len(suf) /\ SubSeq(buf, Len(buf) - Len(suf) + 1, Len(buf)) = suf

\* trim_eol with one pop only for a CRLF (the CR is left in the buffer)
trim_eol_one_pop(buf) ==
    IF ends_with(buf, <<CR, LF>>) THEN <<SubSeq(buf, 1, Len(buf) - 1), <<CR, LF>>>>
    ELSE IF ends_with(buf, <<LF>>) THEN <<SubSeq(buf, 1, Len(buf) - 1), <<LF>>>>
    ELSE IF ends_with(buf, <<NUL>>) THEN <<SubSeq(buf, 1, Len(buf) - 1), <<NUL>>>>
    ELSE <<buf, <<>>>>

\* trim_eol(&mut buf) -> String: the pair <<buffer left, terminator returned>>
trim_eol(buf) ==
    IF ends_with(buf, <<CR, LF>>) THEN <<SubSeq(buf, 1, Len(buf) - 2), <<CR, LF>>>>
    ELSE IF ends_with(buf, <<LF>>) THEN <<SubSeq(buf, 1, Len(buf) - 1), <<LF>>>>
    ELSE IF ends_with(buf, <<NUL>>) THEN <<SubSeq(buf, 1, Len(buf) - 1), <<NUL>>>>
    ELSE <<buf, <<>>>>

\* --------------------------------------------------------------- Range Set
\* a Range is [low, high]; the cursor ri is 1-based here (0-based in the code)
Range(l, h) == [low |-> l, high |-> h]

\* a cursor that stays on the first range
cursor_stay(ranges, ri, idx) == ri

\* if ranges[ri].high < idx && (ri + 1) < ranges.len() { ri += 1 }
cursor_next(ranges, ri, idx) ==
    IF ranges[ri].high < idx /\ ri < Len(ranges) THEN ri + 1 ELSE ri

\* ranges[ri].low <= idx && idx <= ranges[ri].high
cursor_in(ranges, ri, idx) == ranges[ri].low <= idx /\ idx <= ranges[ri].high

\* a segment as the procs hand it over: send_pipe (selected) or send_msg
Seg(sel, text) == [selected |-> sel, text |-> text]

\* ------------------------------------------------------------- the matcher
\* A compiled pattern is [kind, c]: "lit" matches the character c, "plus" a
\* maximal run c+, "star" a maximal run c* (which may be empty).
RunLen(text, s, c) ==
    LET Stop == {p \in s..Len(text) : p = Len(text) \/ text[p + 1] # c}
    IN  Min(Stop) - s

\* Regex::find_at: the leftmost match starting at or after `start` (0-based
\* offsets <<s, e>>), <<>> when there is none
find_at(re, text, start) ==
    IF re.kind = "star"
    THEN <<start, start + RunLen(text, start, re.c)>>
    ELSE LET P == {p \in start..(Len(text) - 1) : text[p + 1] = re.c}
         IN  IF P = {} THEN <<>>
             ELSE LET s == Min(P)
                  IN  <<s, IF re.kind = "lit" THEN s + 1 ELSE s + RunLen(text, s, re.c)>>

\* Regex::find_iter: successive non-overlapping matches; an empty match is
\* followed by a search one character on, and an empty match right at the end
\* of the previous match is skipped.
RECURSIVE find_iter_from(_, _, _, _)
find_iter_from(re, text, last_end, last_match) ==
    IF last_end > Len(text) THEN <<>>
    ELSE LET m == find_at(re, text, last_end)
         IN  IF m = <<>> THEN <<>>
             ELSE IF m[1] = m[2]
                  THEN IF m[2] = last_match
                       THEN find_iter_from(re, text, m[2] + 1, last_match)
                       ELSE <<m>> \o find_iter_from(re, text, m[2] + 1, m[2])
                  ELSE <<m>> \o find_iter_from(re, text, m[2], m[2])

find_iter(re, text) == find_iter_from(re, text, 0, -1)

is_match(re, text) == re.kind = "star" \/ find_at(re, text, 0) # <<>>

\* -------------------------------------------------------------- regex_proc
RECURSIVE regex_loop(_, _, _, _)
regex_loop(line, caps, left_index, invert) ==
    IF caps = <<>>
    THEN IF left_index < Len(line)
         THEN <<Seg(invert, Slice(line, left_index, Len(line)))>>
         ELSE <<>>
    ELSE LET cap == Head(caps)
             unmatched == Slice(line, left_index, cap[1])
             matched == Slice(line, cap[1], cap[2])
         IN  (IF unmatched # <<>> THEN <<Seg(invert, unmatched)>> ELSE <<>>)
             \o <<Seg(~invert, matched)>>
             \o regex_loop(line, Tail(caps), cap[2], invert)

\* regex_proc that ignores the invert flag
regex_proc_no_invert(line, re, invert) ==
    LET s == from_utf8_lossy(line)
    IN  regex_loop(s, find_iter(re, s), 0, FALSE)

regex_proc(line, re, invert) ==
    LET s == from_utf8_lossy(line)
    IN  regex_loop(s, find_iter(re, s), 0, invert)

\* --------------------------------------------------------------- char_proc
\* i is the 1-based position of the character looked at (i + 1 in the code)
RECURSIVE char_loop(_, _, _, _, _, _, _)
char_loop(line, ranges, i, ri, str_in, str_out, last_is_in) ==
    IF i > Len(line)
    THEN IF last_is_in /\ str_in # <<>> THEN <<Seg(TRUE, str_in)>>
         ELSE <<Seg(FALSE, str_out)>>
    ELSE LET ri2 == cursor_next(ranges, ri, i)
             is_in == cursor_in(ranges, ri2, i)
             in2 == IF is_in THEN Append(str_in, line[i]) ELSE str_in
             out2 == IF is_in THEN str_out ELSE Append(str_out, line[i])
         IN  IF is_in /\ ~last_is_in
             THEN <<Seg(FALSE, out2)>>
                      \o char_loop(line, ranges, i + 1, ri2, in2, <<>>, is_in)
             ELSE IF ~is_in /\ last_is_in
             THEN <<Seg(TRUE, in2)>>
                      \o char_loop(line, ranges, i + 1, ri2, <<>>, out2, is_in)
             ELSE char_loop(line, ranges, i + 1, ri2, in2, out2, is_in)

\* char_proc without the merge: one segment for each character
char_proc_each(line, ranges) ==
    LET s == from_utf8_lossy(line)
    IN  [k \in 1..Len(s) |->
            Seg(\E r \in 1..Len(ranges) : ranges[r].low <= k /\ k <= ranges[r].high, <<s[k]>>)]

char_proc(line, ranges) ==
    char_loop(from_utf8_lossy(line), ranges, 1, 1, <<>>, <<>>, FALSE)

\* -------------------------------------------------------- field_regex_proc
RECURSIVE field_regex_loop(_, _, _, _, _, _)
field_regex_loop(line, caps, ranges, i, ri, left_index) ==
    LET ri2 == cursor_next(ranges, ri, i)
    IN  IF caps = <<>>
        THEN IF left_index <= Len(line)
             THEN <<Seg(cursor_in(ranges, ri2, i), Slice(line, left_index, Len(line)))>>
             ELSE <<>>
        ELSE LET cap == Head(caps)
                 field == Slice(line, left_index, cap[1])
                 spaces == Slice(line, cap[1], cap[2])
             IN  <<Seg(cursor_in(ranges, ri2, i), field), Seg(FALSE, spaces)>>
                 \o field_regex_loop(line, Tail(caps), ranges, i + 1, ri2, cap[2])

\* field_regex_proc with left_index < line.len(): no empty last field
field_regex_proc_no_last(line, re, ranges) ==
    LET s == from_utf8_lossy(line)
        r == field_regex_loop(s, find_iter(re, s), ranges, 1, 1, 0)
    IN  IF r[Len(r)].text = <<>> THEN SubSeq(r, 1, Len(r) - 1) ELSE r

field_regex_proc(line, re, ranges) ==
    LET s == from_utf8_lossy(line)
    IN  field_regex_loop(s, find_iter(re, s), ranges, 1, 1, 0)

\* -------------------------------------------------------------- field_proc
\* str::split(delim) for a non-empty delimiter: the pieces between the
\* successive non-overlapping occurrences of delim, empty pieces kept
RECURSIVE split(_, _)
split(line, delim) ==
    LET P == {p \in 0..(Len(line) - Len(delim)) : Slice(line, p, p + Len(delim)) = delim}
    IN  IF P = {} THEN <<line>>
        ELSE <<Slice(line, 0, Min(P))>>
                 \o split(Slice(line, Min(P) + Len(delim), Len(line)), delim)

RECURSIVE field_loop(_, _, _, _, _)
field_loop(tokens, delim, ranges, i, ri) ==
    IF i > Len(tokens) THEN <<>>
    ELSE LET ri2 == cursor_next(ranges, ri, i)
         IN  (IF i > 1 THEN <<Seg(FALSE, delim)>> ELSE <<>>)
             \o <<Seg(cursor_in(ranges, ri2, i), tokens[i])>>
             \o field_loop(tokens, delim, ranges, i + 1, ri2)

\* field_proc that drops the empty fields before counting
field_proc_skip_empty(line, delim, ranges) ==
    field_loop(SelectSeq(split(from_utf8_lossy(line), delim), LAMBDA t : t # <<>>),
               delim, ranges, 1, 1)

field_proc(line, delim, ranges) ==
    field_loop(split(from_utf8_lossy(line), delim), delim, ranges, 1, 1)

\* ------------------------------------------------- list::converter::to_ranges
\* The list is taken as already parsed into an ascending, non-overlapping,
\* non-empty sequence of Ranges.  The largest index a list can name:
IndexMax == MaxLen + MaxRange + 2

RECURSIVE Gaps(_, _)
Gaps(ranges, from) ==
    IF ranges = <<>>
    THEN IF from <= IndexMax THEN <<Range(from, IndexMax)>> ELSE <<>>
    ELSE (IF from < Head(ranges).low THEN <<Range(from, Head(ranges).low - 1)>> ELSE <<>>)
         \o Gaps(Tail(ranges), Head(ranges).high + 1)

\* to_ranges(list, complement): with the flag, the ranges of the indices the
\* list leaves out
to_ranges(list, complement) == IF complement THEN Gaps(list, 1) ELSE list

\* ------------------------------------------------------------------- state
VARIABLES
    args,        \* the parsed options and the input: mode, invert, list, re,
                 \* delimiter, solid, dryrun, line_end, hl, input
    buf,         \* the buffer a function of the selection engine is applied to
    proc,        \* the function applied to buf ("" before it is)
    res,         \* what it sent (the segments, in order) or returned
    stdin,       \* the input not read yet
    pc,          \* main: "start", "read", "send", "eof", "drop", "join", "exit"; "dead"
    ops,         \* main: the sends and pipe writes still to do for the record read
    i,           \* line_line_proc: records read so far
    ri,          \* line_line_proc: the cursor into the Range Set (1-based)
    chan,        \* the channel tx -> rx
    sent,        \* history: every token sent, with the segment it stands for
    pipe_writer, \* the BufWriter on the child's stdin: bytes buffered
    stdin_open,  \* the write end of the child's stdin is open
    child_stdin, \* the OS pipe to the child
    child_line,  \* the child: the bytes of the unit it is reading
    child_out,   \* the child: output it has not written yet
    child_alive, \* the streaming child runs (its stdout is open)
    child_stdout,\* the OS pipe from the child
    cpc,         \* consumer: "recv", "read_pipe", "end_of_fd", "done"; "panicked", "dead"
    reader,      \* consumer: the BufReader's buffer
    unit,        \* consumer: read_until's buffer
    writer,      \* consumer: the BufWriter on stdout: bytes buffered
    output,      \* the bytes written to standard output
    exit_code,   \* the exit code of the process (-1 while it runs)
    stderr,      \* what has been reported on standard error, in order
    vec,         \* exec_cmd_sync: the bytes still to write to the child's stdin
    sync_output, \* exec_cmd_sync: the child's stdout captured so far
    spawned,     \* history: the children spawned by exec_cmd_sync
    wrote,       \* history: the bytes main has given to pipe_writer.write, in order
    reads        \* history: the units read_pipe has read from the child, in order

segvars == <<buf, proc, res>>
mainvars == <<stdin, pc, ops, i, ri>>
chanvars == <<chan, sent>>
pipevars == <<pipe_writer, stdin_open, child_stdin>>
childvars == <<child_line, child_out, child_alive, child_stdout>>
consvars == <<cpc, reader, unit, writer, output>>
syncvars == <<vec, sync_output, spawned>>
histvars == <<wrote, reads>>
runvars == <<mainvars, chanvars, pipevars, childvars, consvars, exit_code, stderr, syncvars,
             histvars>>
vars == <<args, segvars, runvars>>

\* the Range Set the procs work with (main, lines 426-454)
ranges == to_ranges(args.list, args.invert)

\* ----------------------------------------------------------------- domains
Ranges == {Range(l, h) : l \in 1..MaxRange, h \in 1..MaxRange} \ {r \in [low : 1..MaxRange, high : 1..MaxRange] : r.low > r.high}

RECURSIVE RangeSetsFrom(_)
RangeSetsFrom(from) ==
    IF from > MaxRange THEN {<<>>}
    ELSE {<<>>} \cup
         UNION {{<<r>> \o t : t \in RangeSetsFrom(r.high + 1)} : r \in {x \in Ranges : x.low >= from}}

\* every ascending, non-overlapping, non-empty Range Set within 1..MaxRange
RangeSets == RangeSetsFrom(1) \ {<<>>}

\* 'a', ',', the lead byte 0xC3 and the continuation byte 0xA9
Letters == {97, 44, 195, 169}
Terminators == {CR, LF, NUL}
Patterns == [kind : {"lit", "plus", "star"}, c : {97, 44}]
DelimPatterns == [kind : {"lit", "plus"}, c : {44}]
NoPattern == [kind |-> "lit", c |-> 44]
NoList == <<Range(1, 1)>>

\* TEIP_HIGHLIGHT split at "{}": no highlight, or [ and ]
Highlights == {<<<<>>, <<>>>>, <<<<91>>, <<93>>>>}

Args(mode, invert, list, re, delimiter) ==
    [mode |-> mode, invert |-> invert, list |-> list, re |-> re, delimiter |-> delimiter,
     solid |-> FALSE, dryrun |-> TRUE, line_end |-> LF, hl |-> <<<<>>, <<>>>>, input |-> <<>>,
     cmd |-> "ok", broken |-> FALSE]

\* the options of a run, by selection criterion
ModeArgs ==
         {Args("g_o", v, NoList, re, <<>>) : v \in BOOLEAN, re \in Patterns}
    \cup {Args("g", v, NoList, re, <<>>) : v \in BOOLEAN, re \in Patterns}
    \cup {Args("c", v, l, NoPattern, <<>>) : v \in BOOLEAN, l \in RangeSets}
    \cup {Args("f_d", v, l, NoPattern, <<44>>) : v \in BOOLEAN, l \in RangeSets}
    \cup {Args("f_D", v, l, re, <<>>) : v \in BOOLEAN, l \in RangeSets, re \in DelimPatterns}

\* regex_line_proc, lines 602-615: the whole line, selected or not
regex_line(line, re, invert) ==
    LET s == from_utf8_lossy(line)
    IN  <<Seg(IF is_match(re, s) THEN ~invert ELSE invert, s)>>

\* ------------------------------------------- the selection engine, stepwise
\* Each function of the selection engine applied once to a buffer: trim_eol
\* to a buffer of any bytes, a proc to a record (no terminator in it).
\* before main has started the forwarder
Idle ==
    /\ stdin = <<>> /\ pc = "exit" /\ ops = <<>> /\ i = 0 /\ ri = 1
    /\ chan = <<>> /\ sent = <<>>
    /\ pipe_writer = <<>> /\ stdin_open = FALSE /\ child_stdin = <<>>
    /\ child_line = <<>> /\ child_out = <<>> /\ child_alive = FALSE /\ child_stdout = <<>>
    /\ cpc = "done" /\ reader = <<>> /\ unit = <<>> /\ writer = <<>> /\ output = <<>>
    /\ exit_code = -1 /\ stderr = <<>>
    /\ vec = <<>> /\ sync_output = <<>> /\ spawned = 0
    /\ wrote = <<>> /\ reads = <<>>

InitSeg ==
    /\ proc = ""
    /\ res = <<>>
    /\ Idle
    /\ \/ /\ args = Args("trim", FALSE, NoList, NoPattern, <<>>)
          /\ buf \in SeqsUpTo(Letters \cup Terminators, MaxLen)
       \/ /\ args \in ModeArgs
          /\ buf \in SeqsUpTo(Letters, MaxLen)

Apply(mode, name, result) ==
    /\ proc = ""
    /\ args.mode = mode
    /\ proc' = name
    /\ res' = result
    /\ UNCHANGED <<args, buf, runvars>>

SegTrimEol == Apply("trim", "trim_eol", trim_eol(buf))

SegRegexProc == Apply("g_o", "regex_proc", regex_proc(buf, args.re, args.invert))

SegRegexLineProc == Apply("g", "regex_line_proc", regex_line(buf, args.re, args.invert))

SegCharProc == Apply("c", "char_proc", char_proc(buf, ranges))

SegFieldProc == Apply("f_d", "field_proc", field_proc(buf, args.delimiter, ranges))

SegFieldRegexProc == Apply("f_D", "field_regex_proc", field_regex_proc(buf, args.re, ranges))

NextSeg ==
    SegTrimEol \/ SegRegexProc \/ SegRegexLineProc \/ SegCharProc \/ SegFieldProc \/ SegFieldRegexProc

SegSpec == InitSeg /\ [][NextSeg]_vars

\* ------------------------------------------------------------------ tokens
Channel(msg) == [type |-> "Channel", msg |-> msg]
Piped == [type |-> "Piped", msg |-> <<>>]
Solid(msg) == [type |-> "Solid", msg |-> msg]
EOF == [type |-> "EOF", msg |-> <<>>]

\* What main still has to do for the record it read: tx.send of a token (with
\* the segment it stands for, kept for the history) or pipe_writer.write.
Send(tok, sel, text) ==
    [op |-> "send", tok |-> tok, selected |-> sel, text |-> text, bytes |-> <<>>]
Write(bytes) ==
    [op |-> "write", tok |-> EOF, selected |-> FALSE, text |-> <<>>, bytes |-> bytes]
Direct(bytes) ==
    [op |-> "direct", tok |-> EOF, selected |-> FALSE, text |-> <<>>, bytes |-> bytes]

send_msg(msg) == <<Send(Channel(msg), FALSE, msg)>>

\* send_pipe that writes the segment without the line_end after it
send_pipe_no_terminator(a, msg) ==
    IF a.dryrun THEN <<Send(Channel(a.hl[1] \o msg \o a.hl[2]), TRUE, msg)>>
    ELSE IF a.solid THEN <<Send(Solid(msg), TRUE, msg)>>
    ELSE <<Send(Piped, TRUE, msg), Write(as_bytes(msg))>>

\* send_pipe that does not look at the solid flag
send_pipe_always_piped(a, msg) ==
    IF a.dryrun THEN <<Send(Channel(a.hl[1] \o msg \o a.hl[2]), TRUE, msg)>>
    ELSE <<Send(Piped, TRUE, msg), Write(as_bytes(msg)), Write(<<a.line_end>>)>>

\* send_pipe with the solid flag looked at before the dry-run flag
send_pipe_solid_first(a, msg) ==
    IF a.solid THEN <<Send(Solid(msg), TRUE, msg)>>
    ELSE IF a.dryrun THEN <<Send(Channel(a.hl[1] \o msg \o a.hl[2]), TRUE, msg)>>
    ELSE <<Send(Piped, TRUE, msg), Write(as_bytes(msg)), Write(<<a.line_end>>)>>

\* send_pipe with the unit written before the token is sent
send_pipe_write_first(a, msg) ==
    IF a.dryrun THEN <<Send(Channel(a.hl[1] \o msg \o a.hl[2]), TRUE, msg)>>
    ELSE IF a.solid THEN <<Send(Solid(msg), TRUE, msg)>>
    ELSE <<Write(as_bytes(msg)), Write(<<a.line_end>>), Send(Piped, TRUE, msg)>>

send_pipe(a, msg) ==
    IF a.dryrun THEN <<Send(Channel(a.hl[1] \o msg \o a.hl[2]), TRUE, msg)>>
    ELSE IF a.solid THEN <<Send(Solid(msg), TRUE, msg)>>
    ELSE <<Send(Piped, TRUE, msg), Write(as_bytes(msg)), Write(<<a.line_end>>)>>

send_eof == <<Send(EOF, FALSE, <<>>)>>

\* the sends of a proc, in its order
SegOps(a, segs) ==
    Flatten([k \in 1..Len(segs) |->
                IF segs[k].selected THEN send_pipe(a, segs[k].text)
                ELSE send_msg(segs[k].text)])

\* BufRead::read_until(delim): the bytes up to and with the first delim, or
\* all of them when there is none
read_until(input, delim) ==
    LET P == {p \in 1..Len(input) : input[p] = delim}
    IN  IF P = {} THEN input ELSE SubSeq(input, 1, Min(P))

\* line_line_proc, lines 569-576: is record i + 1 selected, and the cursor after
line_line_zero_based(rs, cur, n) ==
    LET c == cursor_next(rs, cur, n) IN <<cursor_in(rs, c, n), c>>

line_line(rs, cur, n) ==
    LET c == cursor_next(rs, cur, n + 1) IN <<cursor_in(rs, c, n + 1), c>>

\* ------------------------------------------------------------- the command
\* The command is line-synchronous: for each unit (bytes up to line_end) one
\* unit out, here `tr a A`. It writes a unit when it has read all of it, or
\* the part it has read as it goes.
Cmd(bytes) == [k \in 1..Len(bytes) |-> IF bytes[k] = 97 THEN 65 ELSE bytes[k]]

\* the child takes bytes in: <<the unit it is still reading, output to write>>
RECURSIVE ChildFeed(_, _, _, _)
ChildFeed(line, out, bytes, le) ==
    IF bytes = <<>> THEN <<line, out>>
    ELSE IF Head(bytes) = le
         THEN ChildFeed(<<>>, out \o Cmd(line) \o <<le>>, Tail(bytes), le)
         ELSE ChildFeed(Append(line, Head(bytes)), out, Tail(bytes), le)

\* read_pipe, lines 190-191, for the unit read_until read
read_pipe_no_trim(u) == as_bytes(from_utf8_lossy(u))

read_pipe(u) == as_bytes(from_utf8_lossy(trim_eol(u)[1]))

\* exec_cmd_sync: the command run on input + line_end, its output without one
\* trailing line_end
exec_cmd_sync(input, le) ==
    LET o == ChildFeed(<<>>, <<>>, as_bytes(input) \o <<le>>, le)[2]
    IN  as_bytes(from_utf8_lossy(IF ends_with(o, <<le>>) THEN SubSeq(o, 1, Len(o) - 1) ELSE o))

\* BufWriter::write on standard output: <<buffer, output>> after the write
BufWrite(w, out, bytes) ==
    IF Len(bytes) <= Cap - Len(w) /\ Len(bytes) < Cap THEN <<w \o bytes, out>>
    ELSE IF Len(bytes) >= Cap THEN <<<<>>, out \o w \o bytes>>
    ELSE <<bytes, out \o w>>

\* ---------------------------------------------------------------- a run
\* the selections the forwarding engine is run with
RunModeArgs ==
         {Args("g_o", v, NoList, [kind |-> k, c |-> 97], <<>>) : v \in BOOLEAN, k \in {"lit", "star"}}
    \cup {Args("g", v, NoList, [kind |-> "lit", c |-> 97], <<>>) : v \in BOOLEAN}
    \cup {Args("c", v, <<Range(l, l)>>, NoPattern, <<>>) : v \in BOOLEAN, l \in 1..2}
    \cup {Args("f_d", v, <<Range(l, l)>>, NoPattern, <<44>>) : v \in BOOLEAN, l \in 1..2}
    \cup {Args("f_D", v, <<Range(l, l)>>, [kind |-> "plus", c |-> 44], <<>>) : v \in BOOLEAN, l \in 1..2}
    \cup {Args("l", v, <<r>>, NoPattern, <<>>) : v \in BOOLEAN, r \in Ranges}

\* solid, dryrun and the highlight: streaming, solid, and the dry runs
RunKinds ==
    {<<FALSE, FALSE, <<<<>>, <<>>>> >>, <<TRUE, FALSE, <<<<>>, <<>>>> >>}
        \cup {<<s, TRUE, h>> : s \in BOOLEAN, h \in Highlights}

\* the bytes of the inputs drawn for a mode: 'a' and the terminator, the
\* delimiter ',' in field mode, the byte 0xC3 (no character) where the
\* record is cut inside
InputBytes(a) ==
    {97, a.line_end}
        \cup (IF a.mode \in {"f_d", "f_D"} THEN {44} ELSE {})
        \cup (IF a.mode \in {"g_o", "c"} THEN {195} ELSE {})

\* the inputs drawn for a mode: up to MaxInput bytes, in line mode up to
\* MaxInput lines, each 'a' or empty, the last with or without its terminator
Inputs(a) ==
    IF a.mode = "l"
    THEN {Flatten(ls) : ls \in SeqsUpTo({<<97, a.line_end>>, <<a.line_end>>, <<97>>}, MaxInput)}
    ELSE SeqsUpTo(InputBytes(a), MaxInput)

\* the runs: the NUL terminator is drawn with whole-line pattern mode, the
\* highlight with pattern mode
RunArgs(a) ==
    /\ a.line_end = NUL => a.mode = "g"
    /\ a.hl # <<<<>>, <<>>>> => a.mode = "g_o"

\* the state of a run with main at p: nothing read, nothing sent; a
\* streaming run has its child, if the command can be spawned
Started(p) ==
    /\ buf = <<>> /\ proc = "" /\ res = <<>>
    /\ stdin = args.input /\ pc = p /\ ops = <<>> /\ i = 0 /\ ri = 1
    /\ chan = <<>> /\ sent = <<>>
    /\ pipe_writer = <<>> /\ child_stdin = <<>>
    /\ stdin_open = (~args.solid /\ ~args.dryrun /\ args.cmd # "missing")
    /\ child_alive = (~args.solid /\ ~args.dryrun /\ args.cmd # "missing")
    /\ child_line = <<>> /\ child_out = <<>> /\ child_stdout = <<>>
    /\ cpc = "recv" /\ reader = <<>> /\ unit = <<>> /\ writer = <<>> /\ output = <<>>
    /\ exit_code = -1 /\ stderr = <<>>
    /\ vec = <<>> /\ sync_output = <<>> /\ spawned = 0
    /\ wrote = <<>> /\ reads = <<>>

\* a run whose command is there and line-synchronous and whose output is
\* read, after start_output / start_solid_output
Init ==
    /\ \E m \in RunModeArgs, k \in RunKinds, le \in {LF, NUL} :
           \E inp \in Inputs([m EXCEPT !.line_end = le]) :
               \E a \in {[m EXCEPT !.solid = k[1], !.dryrun = k[2], !.hl = k[3],
                                   !.line_end = le, !.input = inp]} :
                   RunArgs(a) /\ args = a
    /\ Started("read")

\* --------------------------------------------------------------- main
\* In the actions `\E x \in {e}` names the value of e, computed once.
\* where main goes once the operations left are `rest`
NextPc(rest) == IF rest # <<>> THEN pc ELSE IF pc = "eof" THEN "drop" ELSE "read"

\* main, lines 514-547: read a record, trim_eol, the proc of the mode, the
\* terminator; End at the end of the input
MainLoop ==
    /\ pc = "read"
    /\ args.mode \in {"g_o", "c", "f_d", "f_D"}
    /\ \E rd \in {read_until(stdin, args.line_end)} :
       \E t \in {trim_eol(rd)} :
       \E segs \in {CASE args.mode = "g_o" -> regex_proc(t[1], args.re, args.invert)
                      [] args.mode = "c" -> char_proc(t[1], ranges)
                      [] args.mode = "f_d" -> field_proc(t[1], args.delimiter, ranges)
                      [] args.mode = "f_D" -> field_regex_proc(t[1], args.re, ranges)} :
           /\ stdin' = SubSeq(stdin, Len(rd) + 1, Len(stdin))
           /\ IF rd = <<>>
              THEN ops' = send_eof /\ pc' = "eof"
              ELSE ops' = SegOps(args, segs) \o send_msg(t[2]) /\ pc' = "send"
    /\ UNCHANGED <<args, histvars, syncvars, stderr, segvars, i, ri, chanvars, pipevars,
                   childvars, consvars, exit_code>>

\* regex_line_proc, lines 593-620
RegexLineProc ==
    /\ pc = "read"
    /\ args.mode = "g"
    /\ \E rd \in {read_until(stdin, args.line_end)} :
       \E t \in {trim_eol(rd)} :
       \E segs \in {regex_line(t[1], args.re, args.invert)} :
           /\ stdin' = SubSeq(stdin, Len(rd) + 1, Len(stdin))
           /\ IF rd = <<>>
              THEN ops' = send_eof /\ pc' = "eof"
              ELSE ops' = SegOps(args, segs) \o send_msg(t[2]) /\ pc' = "send"
    /\ UNCHANGED <<args, histvars, syncvars, stderr, segvars, i, ri, chanvars, pipevars,
                   childvars, consvars, exit_code>>

\* line_line_proc, lines 559-582
LineLineProc ==
    /\ pc = "read"
    /\ args.mode = "l"
    /\ \E rd \in {read_until(stdin, args.line_end)} :
       \E t \in {trim_eol(rd)} :
       \E line \in {from_utf8_lossy(t[1])} :
       \E hit \in {line_line(ranges, ri, i)} :
           /\ stdin' = SubSeq(stdin, Len(rd) + 1, Len(stdin))
           /\ IF rd = <<>>
              THEN ops' = send_eof /\ pc' = "eof" /\ UNCHANGED <<i, ri>>
              ELSE /\ ops' = SegOps(args, <<Seg(hit[1], line)>>) \o send_msg(t[2])
                   /\ ri' = hit[2]
                   /\ i' = i + 1
                   /\ pc' = "send"
    /\ UNCHANGED <<args, histvars, syncvars, stderr, segvars, chanvars, pipevars, childvars,
                   consvars, exit_code>>

\* self.tx.send(token)
TxSend ==
    /\ pc \in {"send", "eof"}
    /\ ops # <<>>
    /\ Head(ops).op = "send"
    /\ cpc # "panicked"
    /\ chan' = Append(chan, Head(ops).tok)
    /\ sent' = Append(sent, [tok |-> Head(ops).tok, selected |-> Head(ops).selected,
                             text |-> Head(ops).text])
    /\ ops' = Tail(ops)
    /\ pc' = NextPc(Tail(ops))
    /\ UNCHANGED <<args, histvars, syncvars, stderr, segvars, stdin, i, ri, pipevars, childvars,
                   consvars, exit_code>>

\* self.pipe_writer.write(bytes), BufWriter::write: into the buffer when the
\* bytes fit; otherwise the buffer is flushed to the pipe first and bytes as
\* long as the buffer go to the pipe directly
PipeWrite ==
    /\ pc = "send"
    /\ ops # <<>>
    /\ Head(ops).op = "write"
    /\ LET b == Head(ops).bytes
       IN  IF Len(b) <= Cap - Len(pipe_writer) /\ Len(b) < Cap
           THEN /\ pipe_writer' = pipe_writer \o b
                /\ wrote' = wrote \o b
                /\ ops' = Tail(ops)
                /\ pc' = NextPc(Tail(ops))
           ELSE /\ pipe_writer' = <<>>
                /\ ops' = (IF Len(b) >= Cap THEN <<Direct(pipe_writer \o b)>>
                           ELSE <<Direct(pipe_writer), Write(b)>>) \o Tail(ops)
                /\ wrote' = (IF Len(b) >= Cap THEN wrote \o b ELSE wrote)
                /\ pc' = pc
    /\ UNCHANGED <<args, reads, syncvars, stderr, segvars, stdin, i, ri, chanvars, stdin_open,
                   child_stdin, childvars, consvars, exit_code>>

\* a blocking write(2) to the child's stdin: the bytes go in as the pipe has room
PipeDirect ==
    /\ pc = "send"
    /\ ops # <<>>
    /\ Head(ops).op = "direct"
    /\ child_alive
    /\ LET b == Head(ops).bytes
           n == IF Len(b) < Cap - Len(child_stdin) THEN Len(b) ELSE Cap - Len(child_stdin)
           rest == SubSeq(b, n + 1, Len(b))
       IN  /\ b = <<>> \/ n > 0
           /\ child_stdin' = child_stdin \o SubSeq(b, 1, n)
           /\ ops' = IF rest = <<>> THEN Tail(ops) ELSE <<Direct(rest)>> \o Tail(ops)
           /\ pc' = IF rest = <<>> THEN NextPc(Tail(ops)) ELSE pc
    /\ UNCHANGED <<args, histvars, syncvars, stderr, segvars, stdin, i, ri, chanvars,
                   pipe_writer, stdin_open, childvars, consvars, exit_code>>

\* the BufWriter given up without a flush: what it holds is lost
DropFlushLost ==
    /\ pc = "drop"
    /\ pipe_writer # <<>>
    /\ pipe_writer' = <<>>
    /\ UNCHANGED <<args, histvars, syncvars, stderr, segvars, mainvars, chanvars, stdin_open,
                   child_stdin, childvars, consvars, exit_code>>

\* Drop, line 305: the BufWriter is dropped, which flushes it ...
DropFlush ==
    /\ pc = "drop"
    /\ pipe_writer # <<>>
    /\ child_alive
    /\ Len(child_stdin) < Cap
    /\ LET n == IF Len(pipe_writer) < Cap - Len(child_stdin)
                THEN Len(pipe_writer) ELSE Cap - Len(child_stdin)
       IN  /\ child_stdin' = child_stdin \o SubSeq(pipe_writer, 1, n)
           /\ pipe_writer' = SubSeq(pipe_writer, n + 1, Len(pipe_writer))
    /\ UNCHANGED <<args, histvars, syncvars, stderr, segvars, mainvars, chanvars, stdin_open,
                   childvars, consvars, exit_code>>

\* ... and closes the child's stdin
DropClose ==
    /\ pc = "drop"
    /\ pipe_writer = <<>>
    /\ stdin_open' = (args.solid /\ stdin_open)
    /\ pc' = "join"
    /\ UNCHANGED <<args, histvars, syncvars, stderr, segvars, stdin, ops, i, ri, chanvars,
                   pipe_writer, child_stdin, childvars, consvars, exit_code>>

\* Drop, line 306, without the wait for the thread
DropJoinNoWait ==
    /\ pc = "join"
    /\ pc' = "exit"
    /\ exit_code' = 0
    /\ UNCHANGED <<args, histvars, syncvars, stderr, segvars, stdin, ops, i, ri, chanvars,
                   pipevars, childvars, consvars>>

\* Drop, line 306: join the consumer thread; main returns
DropJoin ==
    /\ pc = "join"
    /\ cpc = "done"
    /\ pc' = "exit"
    /\ exit_code' = 0
    /\ UNCHANGED <<args, histvars, syncvars, stderr, segvars, stdin, ops, i, ri, chanvars,
                   pipevars, childvars, consvars>>

\* ------------------------------------------------------ the consumer thread
\* a write w = <<buffer, output>> goes well: it stays in the BufWriter, or
\* standard output takes the bytes
WriteOk(w) == ~args.broken \/ w[2] = output

Recv(type) == cpc = "recv" /\ chan # <<>> /\ Head(chan).type = type /\ chan' = Tail(chan)

RecvChannel ==
    /\ Recv("Channel")
    /\ \E w \in {BufWrite(writer, output, as_bytes(Head(chan).msg))} :
           WriteOk(w) /\ writer' = w[1] /\ output' = w[2]
    /\ UNCHANGED <<args, histvars, syncvars, stderr, segvars, mainvars, sent, pipevars,
                   childvars, cpc, reader, unit, exit_code>>

\* Token::Piped taken without the read of the unit
RecvPipedNoRead ==
    /\ Recv("Piped")
    /\ UNCHANGED <<args, histvars, syncvars, stderr, segvars, mainvars, sent, pipevars,
                   childvars, cpc, reader, unit, writer, output, exit_code>>

RecvPiped ==
    /\ Recv("Piped")
    /\ ~args.solid
    /\ cpc' = "read_pipe"
    /\ UNCHANGED <<args, histvars, syncvars, stderr, segvars, mainvars, sent, pipevars,
                   childvars, reader, unit, writer, output, exit_code>>

\* read_pipe: read_until on the BufReader, which takes what the pipe holds
\* when its buffer is empty, until a unit is complete
ReadPipe ==
    /\ cpc = "read_pipe"
    /\ reader # <<>> \/ child_stdout # <<>>
    /\ \E src \in {IF reader # <<>> THEN reader ELSE child_stdout} :
       \E chunk \in {read_until(src, args.line_end)} :
       \E u \in {unit \o chunk} :
           /\ reader' = SubSeq(src, Len(chunk) + 1, Len(src))
           /\ child_stdout' = IF reader # <<>> THEN child_stdout ELSE <<>>
           /\ IF chunk[Len(chunk)] = args.line_end
              THEN /\ \E w \in {BufWrite(writer, output, read_pipe(u))} :
                          WriteOk(w) /\ writer' = w[1] /\ output' = w[2]
                   /\ unit' = <<>>
                   /\ reads' = Append(reads, u)
                   /\ cpc' = "recv"
              ELSE /\ unit' = u
                   /\ UNCHANGED <<writer, output, cpc, reads>>
    /\ UNCHANGED <<args, wrote, syncvars, stderr, segvars, mainvars, chanvars, pipevars,
                   child_line, child_out, child_alive, exit_code>>

RecvSolid ==
    /\ Recv("Solid")
    /\ args.solid
    /\ args.cmd # "missing"
    /\ \E w \in {BufWrite(writer, output, exec_cmd_sync(Head(chan).msg, args.line_end))} :
           WriteOk(w) /\ writer' = w[1] /\ output' = w[2]
    /\ UNCHANGED <<args, histvars, syncvars, stderr, segvars, mainvars, sent, pipevars,
                   childvars, cpc, reader, unit, exit_code>>

\* the thread ends without its BufWriter flushed
RecvEOFNoFlush ==
    /\ Recv("EOF")
    /\ cpc' = "done"
    /\ UNCHANGED <<args, histvars, syncvars, stderr, segvars, mainvars, sent, pipevars,
                   childvars, reader, unit, writer, output, exit_code>>

\* Token::EOF: break; the thread ends and its BufWriter is dropped, flushed
RecvEOF ==
    /\ Recv("EOF")
    /\ cpc' = "done"
    /\ output' = (IF args.broken THEN output ELSE output \o writer)
    /\ writer' = <<>>
    /\ UNCHANGED <<args, histvars, syncvars, stderr, segvars, mainvars, sent, pipevars,
                   childvars, reader, unit, exit_code>>

\* ------------------------------------------------------- the streaming child
ChildRead ==
    /\ child_alive
    /\ child_out = <<>>
    /\ child_stdin # <<>>
    /\ \E f \in {ChildFeed(child_line, <<>>, child_stdin, args.line_end)} :
           \/ child_line' = f[1] /\ child_out' = f[2]
           \/ f[1] # <<>> /\ child_line' = <<>> /\ child_out' = f[2] \o Cmd(f[1])
    /\ child_stdin' = <<>>
    /\ UNCHANGED <<args, histvars, syncvars, stderr, segvars, mainvars, chanvars, pipe_writer,
                   stdin_open, child_alive, child_stdout, consvars, exit_code>>

ChildWrite ==
    /\ child_alive
    /\ child_out # <<>>
    /\ Len(child_stdout) < Cap
    /\ LET n == IF Len(child_out) < Cap - Len(child_stdout)
                THEN Len(child_out) ELSE Cap - Len(child_stdout)
       IN  /\ child_stdout' = child_stdout \o SubSeq(child_out, 1, n)
           /\ child_out' = SubSeq(child_out, n + 1, Len(child_out))
    /\ UNCHANGED <<args, histvars, syncvars, stderr, segvars, mainvars, chanvars, pipevars,
                   child_line, child_alive, consvars, exit_code>>

\* end of file on its stdin: the child exits
ChildExit ==
    /\ child_alive
    /\ ~stdin_open
    /\ child_stdin = <<>>
    /\ child_out = <<>>
    /\ child_alive' = FALSE
    /\ UNCHANGED <<args, histvars, syncvars, stderr, segvars, mainvars, chanvars, pipevars,
                   child_line, child_out, child_stdout, consvars, exit_code>>

Main == MainLoop \/ RegexLineProc \/ LineLineProc \/ TxSend \/ PipeWrite \/ PipeDirect
            \/ DropFlush \/ DropClose \/ DropJoin
Consumer == RecvChannel \/ RecvPiped \/ ReadPipe \/ RecvSolid \/ RecvEOF
Child == ChildRead \/ ChildWrite \/ ChildExit

Next == Main \/ Consumer \/ Child

Spec == Init /\ [][Next]_vars

\* the consumer of a streaming run: no Token::Solid reaches it
StreamingConsumer == RecvChannel \/ RecvPiped \/ ReadPipe \/ RecvEOF
NextLive == Main \/ StreamingConsumer \/ Child

\* The streaming runs with a command (whole-line pattern, line and character
\* mode, terminator LF), each thread and the child scheduled again and again
\* while it can take a step.
InitLive ==
    /\ Init /\ ~args.solid /\ ~args.dryrun /\ ~args.invert
    /\ args.line_end = LF /\ args.mode \in {"g", "l", "c"}

LiveSpec ==
    InitLive /\ [][NextLive]_vars
        /\ WF_vars(Main) /\ WF_vars(StreamingConsumer) /\ WF_vars(Child)

\* ------------------------------------------------- reading the segments
Texts(ss) == [k \in 1..Len(ss) |-> ss[k].text]
Flip(ss) == [k \in 1..Len(ss) |-> Seg(~ss[k].selected, ss[k].text)]
NonEmpty(ss) == SelectSeq(ss, LAMBDA x : x.text # <<>>)
\* index (1-based) is in the Range Set rs, tested against every range
InSet(rs, idx) == \E k \in 1..Len(rs) : rs[k].low <= idx /\ idx <= rs[k].high
IsSegProc == proc \in {"regex_proc", "char_proc", "field_proc", "field_regex_proc"}

\* the characters of the record, numbered from 1, and where segment k starts
RECURSIVE TextLen(_)
TextLen(ss) == IF ss = <<>> THEN 0 ELSE Len(Head(ss).text) + TextLen(Tail(ss))
StartOf(ss, k) == TextLen(SubSeq(ss, 1, k - 1))
\* the fields of a field-mode result flipped, the delimiters kept
FlipFields(ss) ==
    [k \in 1..Len(ss) |-> IF k % 2 = 1 THEN Seg(~ss[k].selected, ss[k].text) ELSE ss[k]]

\* ---------------------------------------------------------------- claims
\* C5: for every record and every segmentation operation (pattern, field
\* with literal or pattern delimiter, character) the texts of the segments
\* sent, concatenated in send order, are the bytes of the record.
C5_SegmentsRebuildRecord ==
    IsSegProc => as_bytes(Flatten(Texts(res))) = buf

C7_CharRuns ==
    proc = "char_proc" =>
        LET line == from_utf8_lossy(buf)
            ne == NonEmpty(res)
        IN  /\ Flatten(Texts(ne)) = line
            /\ \A k \in 1..Len(ne) : \A q \in 1..Len(ne[k].text) :
                   ne[k].selected = InSet(ranges, StartOf(ne, k) + q)
            /\ \A k \in 1..(Len(ne) - 1) : ne[k].selected # ne[k + 1].selected
            /\ \A k \in 1..Len(res) : res[k].selected => res[k].text # <<>>

\* C7 witness: a selected run of three characters that spans two adjacent
\* ranges, sent as one segment
C7_Witness ==
    /\ proc = "char_proc" /\ ~args.invert
    /\ args.list = <<Range(1, 2), Range(3, 3)>>
    /\ Len(buf) = 4
    /\ \E k \in 1..Len(res) : res[k].selected /\ Len(res[k].text) = 3

\* C8: in field mode with a literal delimiter a record with n delimiters is
\* sent as n + 1 fields with the n delimiters between them; a delimiter is
\* never selected; a field may be empty and still counts, so that field j
\* is selected exactly if j is in the Range Set.
C8_FieldSegments ==
    proc = "field_proc" =>
        LET line == from_utf8_lossy(buf)
            d == args.delimiter[1]
            n == Cardinality({p \in 1..Len(line) : line[p] = d})
        IN  /\ Len(res) = 2 * n + 1
            /\ Flatten(Texts(res)) = line
            /\ \A k \in 1..Len(res) :
                   IF k % 2 = 0
                   THEN res[k] = Seg(FALSE, args.delimiter)
                   ELSE /\ res[k].selected = InSet(ranges, (k + 1) \div 2)
                        /\ \A q \in 1..Len(res[k].text) : res[k].text[q] # d

\* C8 witness: `a,,a` with field 2 selected: three fields, the empty second
\* one selected, and a record ending in a delimiter
C8_Witness ==
    /\ proc = "field_proc" /\ ~args.invert
    /\ buf = <<97, 44, 44, 97>>
    /\ args.list = <<Range(2, 2)>>
    /\ res = <<Seg(FALSE, <<97>>), Seg(FALSE, <<44>>), Seg(TRUE, <<>>),
               Seg(FALSE, <<44>>), Seg(FALSE, <<97>>)>>

\* C10: trim_eol returns "\r\n", "\n", "\0" or "" and takes exactly that off
\* the end of the buffer: what is left followed by what is returned is the
\* buffer as it was; a buffer ending in a terminator loses it (both bytes of
\* a CRLF).
C10_TrimEolExact ==
    proc = "trim_eol" =>
        /\ res[1] \o res[2] = buf
        /\ res[2] \in {<<CR, LF>>, <<LF>>, <<NUL>>, <<>>}
        /\ ends_with(buf, <<CR, LF>>) => res[2] = <<CR, LF>>
        /\ (ends_with(buf, <<LF>>) \/ ends_with(buf, <<NUL>>)) => res[2] # <<>>

\* C10 witness: a buffer with content and a CRLF terminator, trimmed
C10_Witness ==
    /\ proc = "trim_eol"
    /\ res[2] = <<CR, LF>>
    /\ res[1] # <<>>

\* ------------------------------------------------------------ failures
\* The runs in which the environment fails: the command cannot be spawned
\* (cmd = "missing"), the streaming child ends before its input does
\* (cmd = "quits"), standard output is a pipe nobody reads (broken).
\* msg_error: a line on standard error
msg_error(m) == stderr' = Append(stderr, m)

\* std::process::exit(code): the process ends there, with all its threads;
\* no destructor runs
exit(code) == pc' = "dead" /\ cpc' = "dead" /\ exit_code' = code

FailKinds == {<<FALSE, FALSE>>, <<TRUE, FALSE>>, <<FALSE, TRUE>>}
FailModeArgs ==
         {Args("g", FALSE, NoList, [kind |-> "lit", c |-> 97], <<>>)}
    \cup {Args("c", FALSE, <<Range(l, l)>>, NoPattern, <<>>) : l \in 1..2}
    \cup {Args("l", FALSE, <<Range(l, l)>>, NoPattern, <<>>) : l \in 1..2}
\* the commands that matter for a kind of run
FailCmds(solid, dryrun) ==
    IF dryrun THEN {"ok"} ELSE IF solid THEN {"ok", "missing"} ELSE {"ok", "missing", "quits"}

InitFail ==
    /\ \E m \in FailModeArgs, k \in FailKinds, b \in BOOLEAN :
           \E inp \in SeqsUpTo({97, LF}, MaxInput), c \in FailCmds(k[1], k[2]) :
               args = [m EXCEPT !.solid = k[1], !.dryrun = k[2], !.input = inp,
                                !.cmd = c, !.broken = b]
    /\ Started("start")

\* main, lines 490-496: start_output / start_solid_output give the Forwarder.
\* Only start_output with a command spawns (exec_cmd).
StartOutput ==
    /\ pc = "start"
    /\ args.solid \/ args.dryrun \/ args.cmd # "missing"
    /\ pc' = "read"
    /\ UNCHANGED <<args, histvars, syncvars, stderr, segvars, stdin, ops, i, ri, chanvars,
                   pipevars, childvars, consvars, exit_code>>

\* exec_cmd, lines 209-214: spawn fails; start_output returns the error and
\* main calls error_exit (line 495-496)
StartSpawnError ==
    /\ pc = "start"
    /\ ~args.solid /\ ~args.dryrun /\ args.cmd = "missing"
    /\ msg_error("spawn") /\ exit(1)
    /\ UNCHANGED <<args, histvars, syncvars, segvars, stdin, ops, i, ri, chanvars, pipevars,
                   childvars, reader, unit, writer, output>>

\* a panic of the consumer thread: it unwinds (the thread ends, its receiver
\* and its BufWriter are dropped, the BufWriter flushed with errors ignored),
\* or the build aborts the process
ConsumerPanic ==
    /\ msg_error("panic")
    /\ \/ /\ cpc' = "panicked"
          /\ output' = (IF args.broken THEN output ELSE output \o writer)
          /\ writer' = <<>>
          /\ UNCHANGED <<pc, exit_code>>
       \/ /\ exit(134)
          /\ UNCHANGED <<writer, output>>

\* exec_cmd_sync, lines 227-231: spawn().expect(..) panics
SolidSpawnPanic ==
    /\ Recv("Solid")
    /\ args.solid
    /\ args.cmd = "missing"
    /\ ConsumerPanic
    /\ UNCHANGED <<args, histvars, syncvars, segvars, stdin, ops, i, ri, sent, pipevars,
                   childvars, reader, unit>>

\* self.tx.send fails: the receiver is gone. The procs return the error and
\* main calls error_exit; for the terminator (line 543) and End (line 521)
\* of the main loop the error is only reported.
TxSendError ==
    /\ pc \in {"send", "eof"}
    /\ ops # <<>>
    /\ Head(ops).op = "send"
    /\ cpc = "panicked"
    /\ msg_error("send")
    /\ IF args.mode \in {"l", "g"} \/ Len(ops) > 1
       THEN exit(1) /\ UNCHANGED ops
       ELSE ops' = Tail(ops) /\ pc' = NextPc(Tail(ops)) /\ UNCHANGED <<cpc, exit_code>>
    /\ UNCHANGED <<args, histvars, syncvars, segvars, stdin, i, ri, chanvars, pipevars,
                   childvars, reader, unit, writer, output>>

\* pipe_writer.write fails: the child is gone (EPIPE); send_pipe returns the
\* error, main calls error_exit
PipeWriteError ==
    /\ pc = "send"
    /\ ops # <<>>
    /\ Head(ops).op = "direct"
    /\ ~child_alive
    /\ msg_error("pipe") /\ exit(1)
    /\ UNCHANGED <<args, histvars, syncvars, segvars, stdin, ops, i, ri, chanvars, pipevars,
                   childvars, reader, unit, writer, output>>

\* Drop, line 305, with the child gone: the flush fails, BufWriter's drop
\* ignores it
DropFlushError ==
    /\ pc = "drop"
    /\ pipe_writer # <<>>
    /\ ~child_alive
    /\ pipe_writer' = <<>>
    /\ UNCHANGED <<args, histvars, syncvars, stderr, segvars, mainvars, chanvars, stdin_open,
                   child_stdin, childvars, consvars, exit_code>>

\* Drop, line 306: join() gives Err for a thread that panicked, unwrap panics
\* in main
DropJoinPanic ==
    /\ pc = "join"
    /\ cpc = "panicked"
    /\ msg_error("panic")
    /\ pc' = "dead" /\ exit_code' = 101
    /\ UNCHANGED <<args, histvars, syncvars, segvars, stdin, ops, i, ri, chanvars, pipevars,
                   childvars, consvars>>

\* writer.write fails on standard output: exit_silently (lines 83, 91, 149)
RecvChannelError ==
    /\ Recv("Channel")
    /\ ~WriteOk(BufWrite(writer, output, as_bytes(Head(chan).msg)))
    /\ exit(1)
    /\ UNCHANGED <<args, histvars, syncvars, stderr, segvars, stdin, ops, i, ri, sent, pipevars,
                   childvars, reader, unit, writer, output>>

RecvSolidError ==
    /\ Recv("Solid")
    /\ args.solid
    /\ args.cmd # "missing"
    /\ ~WriteOk(BufWrite(writer, output, exec_cmd_sync(Head(chan).msg, args.line_end)))
    /\ exit(1)
    /\ UNCHANGED <<args, histvars, syncvars, stderr, segvars, stdin, ops, i, ri, sent, pipevars,
                   childvars, reader, unit, writer, output>>

ReadPipeError ==
    /\ cpc = "read_pipe"
    /\ reader # <<>> \/ child_stdout # <<>>
    /\ \E src \in {IF reader # <<>> THEN reader ELSE child_stdout} :
       \E chunk \in {read_until(src, args.line_end)} :
           /\ chunk[Len(chunk)] = args.line_end
           /\ ~WriteOk(BufWrite(writer, output, read_pipe(unit \o chunk)))
    /\ exit(1)
    /\ UNCHANGED <<args, histvars, syncvars, stderr, segvars, stdin, ops, i, ri, chanvars,
                   pipevars, childvars, reader, unit, writer, output>>

\* read_pipe at the end of the child's stdout. With bytes of a unit read,
\* read_until returns them (n > 0) and they are written as the unit; with
\* none (n == 0), read_pipe returns EndOfFd.
ReadPipeEof ==
    /\ cpc = "read_pipe"
    /\ reader = <<>> /\ child_stdout = <<>> /\ ~child_alive
    /\ IF unit # <<>>
       THEN /\ \E w \in {BufWrite(writer, output, read_pipe(unit))} :
                   WriteOk(w) /\ writer' = w[1] /\ output' = w[2]
            /\ unit' = <<>>
            /\ reads' = Append(reads, unit)
            /\ cpc' = "recv"
       ELSE /\ cpc' = "end_of_fd"
            /\ UNCHANGED <<unit, writer, output, reads>>
    /\ UNCHANGED <<args, wrote, syncvars, stderr, segvars, mainvars, sent, chan, pipevars,
                   childvars, reader, exit_code>>

\* start_output, lines 93-97, on EndOfFd: writer.flush().unwrap(), then
\* error_exit. A flush of nothing writes nothing and succeeds.
FlushErrorExit ==
    /\ cpc = "end_of_fd"
    /\ IF args.broken /\ writer # <<>>
       THEN ConsumerPanic
       ELSE /\ output' = output \o writer
            /\ writer' = <<>>
            /\ msg_error("pipe") /\ exit(1)
    /\ UNCHANGED <<args, histvars, syncvars, segvars, stdin, ops, i, ri, chanvars, pipevars,
                   childvars, reader, unit>>

ReadPipeEofError ==
    /\ cpc = "read_pipe"
    /\ reader = <<>> /\ child_stdout = <<>> /\ ~child_alive
    /\ unit # <<>>
    /\ ~WriteOk(BufWrite(writer, output, read_pipe(unit)))
    /\ exit(1)
    /\ UNCHANGED <<args, histvars, syncvars, stderr, segvars, stdin, ops, i, ri, chanvars,
                   pipevars, childvars, reader, unit, writer, output>>

\* the streaming child ends on its own: what it had not written is lost, what
\* is in the pipe from it can still be read
ChildQuit ==
    /\ args.cmd = "quits"
    /\ child_alive
    /\ pc # "start"
    /\ child_alive' = FALSE
    /\ child_out' = <<>>
    /\ UNCHANGED <<args, histvars, syncvars, stderr, segvars, mainvars, chanvars, pipevars,
                   child_line, child_stdout, consvars, exit_code>>

\* the arm `_ => error_exit("Exit with bug.")` of both consumers: the token
\* start_output (lines 104-106) has no arm for is Token::Solid, the token
\* start_solid_output (lines 155-157) has no arm for is Token::Piped
RecvBug ==
    /\ Recv(IF args.solid THEN "Piped" ELSE "Solid")
    /\ msg_error("bug") /\ exit(1)
    /\ UNCHANGED <<args, histvars, syncvars, segvars, stdin, ops, i, ri, sent, pipevars,
                   childvars, reader, unit, writer, output>>

Failures ==
    \/ StartOutput \/ StartSpawnError \/ SolidSpawnPanic \/ TxSendError \/ PipeWriteError
    \/ DropFlushError \/ DropJoinPanic \/ RecvChannelError \/ RecvSolidError
    \/ ReadPipeError \/ ReadPipeEof \/ FlushErrorExit \/ ReadPipeEofError \/ ChildQuit

NextFail == Main \/ Consumer \/ Child \/ Failures

FailSpec == InitFail /\ [][NextFail]_vars

\* ------------------------------------------------- exec_cmd_sync, step by step
\* A solid run with the child of exec_cmd_sync as a process of its own and
\* the pipes to and from it of capacity Cap: spawn, write_all, close,
\* wait_with_output. The child is the child of the streaming runs: it reads
\* what is in its stdin when it has nothing left to write, and exits at the
\* end of its input.
SolidMax == 3 * Cap + 1

As(n) == [k \in 1..n |-> 97]

\* one record of up to SolidMax bytes, or two short records
SolidInputs ==
         {As(n) \o t : n \in 0..SolidMax, t \in {<<>>, <<LF>>}}
    \cup {As(m) \o <<LF>> \o As(n) \o <<LF>> : m, n \in 0..1}

\* teip -s -c 1-SolidMax -- command
InitSolid ==
    /\ \E inp \in SolidInputs :
           args = [Args("c", FALSE, <<Range(1, SolidMax)>>, NoPattern, <<>>)
                       EXCEPT !.solid = TRUE, !.dryrun = FALSE, !.input = inp]
    /\ Started("read")

\* the result of exec_cmd_sync for the captured stdout, lines 246-249
sync_result(o, le) ==
    as_bytes(from_utf8_lossy(IF ends_with(o, <<le>>) THEN SubSeq(o, 1, Len(o) - 1) ELSE o))

\* lines 227-237: the child is spawned with both pipes, vec is input + line_end
SolidSpawn ==
    /\ Recv("Solid")
    /\ args.solid
    /\ args.cmd # "missing"
    /\ child_alive' = TRUE /\ stdin_open' = TRUE
    /\ child_stdin' = <<>> /\ child_line' = <<>> /\ child_out' = <<>> /\ child_stdout' = <<>>
    /\ vec' = as_bytes(Head(chan).msg) \o <<args.line_end>>
    /\ sync_output' = <<>>
    /\ spawned' = spawned + 1
    /\ cpc' = "write_all"
    /\ UNCHANGED <<args, histvars, stderr, segvars, mainvars, sent, pipe_writer, reader, unit,
                   writer, output, exit_code>>

\* lines 238-240, stdin.write_all(vec): blocking writes, as the pipe has room
SolidWrite ==
    /\ cpc = "write_all"
    /\ vec # <<>>
    /\ Len(child_stdin) < Cap
    /\ LET n == IF Len(vec) < Cap - Len(child_stdin) THEN Len(vec) ELSE Cap - Len(child_stdin)
       IN  /\ child_stdin' = child_stdin \o SubSeq(vec, 1, n)
           /\ vec' = SubSeq(vec, n + 1, Len(vec))
    /\ UNCHANGED <<args, histvars, stderr, segvars, mainvars, chanvars, pipe_writer, stdin_open,
                   childvars, consvars, exit_code, sync_output, spawned>>

\* line 243, wait_with_output: it first drops the child's stdin
SolidClose ==
    /\ cpc = "write_all"
    /\ vec = <<>>
    /\ stdin_open' = FALSE
    /\ cpc' = "wait_with_output"
    /\ UNCHANGED <<args, histvars, syncvars, stderr, segvars, mainvars, chanvars, pipe_writer,
                   child_stdin, childvars, reader, unit, writer, output, exit_code>>

\* wait_with_output reads the child's stdout to its end
SolidRead ==
    /\ cpc = "wait_with_output"
    /\ child_stdout # <<>>
    /\ sync_output' = sync_output \o child_stdout
    /\ child_stdout' = <<>>
    /\ UNCHANGED <<args, histvars, stderr, segvars, mainvars, chanvars, pipevars, child_line,
                   child_out, child_alive, consvars, exit_code, vec, spawned>>

\* the result written without the wait for the end of the child
SolidDoneNoWait ==
    /\ cpc = "wait_with_output"
    /\ \E w \in {BufWrite(writer, output, sync_result(sync_output, args.line_end))} :
           WriteOk(w) /\ writer' = w[1] /\ output' = w[2]
    /\ sync_output' = <<>>
    /\ cpc' = "recv"
    /\ UNCHANGED <<args, histvars, stderr, segvars, mainvars, chanvars, pipevars, childvars,
                   reader, unit, exit_code, vec, spawned>>

\* lines 242-249 and 147-149: the child has exited and its stdout is read to
\* the end; the result is written
SolidDone ==
    /\ cpc = "wait_with_output"
    /\ ~child_alive
    /\ child_stdout = <<>>
    /\ \E w \in {BufWrite(writer, output, sync_result(sync_output, args.line_end))} :
           WriteOk(w) /\ writer' = w[1] /\ output' = w[2]
    /\ sync_output' = <<>>
    /\ cpc' = "recv"
    /\ UNCHANGED <<args, histvars, stderr, segvars, mainvars, chanvars, pipevars, childvars,
                   reader, unit, exit_code, vec, spawned>>

\* exec_cmd_sync and the child it runs
SolidRun == SolidWrite \/ SolidClose \/ SolidRead \/ SolidDone \/ Child

SolidMain == MainLoop \/ TxSend \/ DropClose \/ DropJoin
SolidConsumer == RecvChannel \/ SolidSpawn \/ RecvEOF
NextSolid == SolidMain \/ SolidConsumer \/ SolidRun

SolidSpec == InitSolid /\ [][NextSolid]_vars

\* ------------------------------------------------- the cursor of the procs
\* The two lines every list-driven proc runs for each index, in the order
\* 1, 2, 3, ...: the characters of a record (char_proc), its fields
\* (field_proc, field_regex_proc), the records of a run (line_line_proc).
\* i is the last index asked, ri the cursor (1-based), res the answers with
\* the cursor they were given on.
MaxQuery == IndexMax + 1

CursorArgs ==
    {Args(m, v, l, NoPattern, <<>>) : m \in {"c", "f_d", "f_D", "l"}, v \in BOOLEAN,
                                      l \in RangeSets}

InitCursor ==
    /\ args \in CursorArgs
    /\ buf = <<>> /\ proc = "cursor" /\ res = <<>>
    /\ Idle

Query(mode, idx) ==
    /\ proc = "cursor"
    /\ args.mode = mode
    /\ i < MaxQuery
    /\ idx = i + 1
    /\ i' = i + 1
    /\ ri' = cursor_next(ranges, ri, idx)
    /\ res' = Append(res, [selected |-> cursor_in(ranges, ri', idx), ri |-> ri'])
    /\ UNCHANGED <<args, histvars, syncvars, stderr, buf, proc, stdin, pc, ops, chanvars,
                   pipevars, childvars, consvars, exit_code>>

\* char_proc, lines 681-690: the character i (0-based) is index i + 1
CharQuery == \E idx \in 1..MaxQuery : Query("c", idx)

\* field_proc, lines 768-771: the token i (0-based) is index i + 1
FieldQuery == \E idx \in 1..MaxQuery : Query("f_d", idx)

\* field_regex_proc, lines 725-727 and 738-740: the field index i starts at 1
FieldRegexQuery == \E idx \in 1..MaxQuery : Query("f_D", idx)

\* line_line_proc, lines 569-576, by the operator of the runs: i records read
LineQuery ==
    /\ proc = "cursor"
    /\ args.mode = "l"
    /\ i < MaxQuery
    /\ i' = i + 1
    /\ \E r \in {line_line(ranges, ri, i)} :
           /\ ri' = r[2]
           /\ res' = Append(res, [selected |-> r[1], ri |-> r[2]])
    /\ UNCHANGED <<args, histvars, syncvars, stderr, buf, proc, stdin, pc, ops, chanvars,
                   pipevars, childvars, consvars, exit_code>>

NextCursor == CharQuery \/ FieldQuery \/ FieldRegexQuery \/ LineQuery

CursorSpec == InitCursor /\ [][NextCursor]_vars

\* ------------------------------------------------- reading the history
\* what the consumer writes for a token: the text of a Literal, the unit the
\* command gives back for the segment of a StreamingRead or a SolidRun
TokOut(h) ==
    CASE h.tok.type = "Channel" -> as_bytes(h.tok.msg)
      [] h.tok.type = "Piped" -> Cmd(as_bytes(h.text))
      [] h.tok.type = "Solid" -> Cmd(as_bytes(h.tok.msg))
      [] OTHER -> <<>>
Expected == Flatten([k \in 1..Len(sent) |-> TokOut(sent[k])])
ProducerDone == pc \in {"drop", "join", "exit"}
Streaming == ~args.solid /\ ~args.dryrun
\* the records of an input, each with its terminator
RECURSIVE Records(_, _)
Records(input, le) ==
    IF input = <<>> THEN <<>>
    ELSE LET rd == read_until(input, le)
         IN  <<rd>> \o Records(SubSeq(input, Len(rd) + 1, Len(input)), le)

\* C1: in every mode and under every interleaving, what has been written to
\* standard output is, in the order the tokens were sent, the output of each
\* token (a prefix of it while the run goes on, all of it once the consumer
\* has ended); the tokens are sent in record order, segment order, with the
\* terminator after each record, so together they carry the whole input.
C1_OutputInTokenOrder ==
    /\ IsPrefix(output \o writer, Expected)
    /\ cpc = "done" => output = Expected
    /\ ProducerDone =>
           Flatten([k \in 1..Len(sent) |-> sent[k].text]) = from_utf8_lossy(args.input)

\* C1 witness: a streaming run that has ended with two units read from the
\* command and a non-empty Literal between them
C1_Witness ==
    /\ Streaming /\ cpc = "done"
    /\ \E j, k, l \in 1..Len(sent) :
           /\ j < k /\ k < l
           /\ sent[j].tok = Piped /\ sent[l].tok = Piped
           /\ sent[k].tok.type = "Channel" /\ sent[k].tok.msg # <<>>

\* C2: a streaming run always ends: every token is consumed, the consumer
\* thread ends and the join returns, whatever the BufWriter holds back and
\* however little the pipes take.
C2_StreamingTerminates == <>[](pc = "exit" /\ cpc = "done" /\ chan = <<>>)

\* C2 witness: the consumer waits for a unit while the child's stdin pipe is
\* full and the BufWriter still holds bytes of the producer
C2_Witness ==
    /\ Streaming /\ cpc = "read_pipe"
    /\ reader = <<>> /\ child_stdout = <<>>
    /\ Len(child_stdin) = Cap
    /\ pipe_writer # <<>>

\* C3: the release closes the child's stdin, with everything the producer
\* wrote flushed into it, before it waits for the consumer; when it returns
\* the consumer has ended, the channel is empty and every token sent before
\* End has its output on standard output.
C3_ReleaseClosesThenJoins ==
    /\ pc \in {"join", "exit"} => ~stdin_open /\ pipe_writer = <<>> /\ ops = <<>>
    /\ pc = "exit" =>
           /\ cpc = "done" /\ chan = <<>> /\ writer = <<>>
           /\ sent[Len(sent)].tok = EOF
           /\ output = Expected
           /\ exit_code = 0

\* C3 witness: a streaming run released, with a unit of the command in the output
C3_Witness ==
    /\ Streaming /\ pc = "exit"
    /\ \E k \in 1..Len(sent) : sent[k].tok = Piped /\ sent[k].text # <<>>

\* C4: a dry run without highlight writes its input, whatever the selection.
C4_DryRunIdentity ==
    (args.dryrun /\ args.hl = <<<<>>, <<>>>> /\ pc = "exit") => output = args.input

\* C9: in line mode record n is sent whole, to the command exactly if n is
\* in the Range Set and as a Literal otherwise, followed by its terminator;
\* the output is in record order.
C9_LineMode ==
    (args.mode = "l" /\ ProducerDone) =>
        LET recs == Records(args.input, args.line_end)
        IN  /\ Len(sent) = 2 * Len(recs) + 1
            /\ sent[Len(sent)].tok = EOF
            /\ \A n \in 1..Len(recs) :
                   LET t == trim_eol(recs[n])
                       h == sent[2 * n - 1]
                   IN  /\ h.text = from_utf8_lossy(t[1])
                       /\ h.selected = InSet(ranges, n)
                       /\ h.tok.type = IF ~h.selected \/ args.dryrun THEN "Channel"
                                       ELSE IF args.solid THEN "Solid" ELSE "Piped"
                       /\ sent[2 * n].tok = Channel(t[2])
            /\ pc = "exit" => output = Expected

\* C9 witness: three lines and the list 2: line 2 went through the command,
\* lines 1 and 3 passed, and the output is in the order 1, 2, 3
C9_Witness ==
    /\ args.mode = "l" /\ ~args.invert /\ Streaming /\ pc = "exit"
    /\ args.list = <<Range(2, 2)>>
    /\ args.input = <<97, LF, 97, LF, 97>>
    /\ output = <<97, LF, 65, LF, 97>>

\* C17: in pattern mode (only-matched) a match of zero width gives no
\* segment: regex_proc skips empty unmatched text, so a segment without text
\* could only stand for a match; none is sent, with or without invert.
C17_NoZeroWidthSegment ==
    proc = "regex_proc" => \A k \in 1..Len(res) : res[k].text # <<>>

\* C18: in character mode every segment sent carries text, for every record
\* (the empty one, one whose first or whose last character is selected).
C18_NoEmptyCharSegment ==
    proc = "char_proc" => \A k \in 1..Len(res) : res[k].text # <<>>

\* the producer is about to write a segment to the child: the write of the
\* segment and the write of its terminator are both still to do
WritePending ==
    pc = "send" /\ Len(ops) >= 2 /\ ops[1].op = "write" /\ ops[2].op = "write"

\* C16 as stated: no StreamingRead token is sent before the write of its
\* segment has started.
C16_WriteBeforeSignal ==
    ~(sent # <<>> /\ sent[Len(sent)].tok = Piped /\ WritePending)

\* C16 amended: the StreamingRead token is sent first and the write follows
\* it directly: the step that sends the token leaves the write of that
\* segment and of the terminator as the producer's next two operations, and
\* a write is only ever pending right after the token of its segment.
C16_SignalThenWrite ==
    /\ [][(sent' # sent /\ sent'[Len(sent')].tok = Piped) =>
              /\ pc' = "send" /\ Len(ops') >= 2
              /\ ops'[1] = Write(as_bytes(sent'[Len(sent')].text))
              /\ ops'[2] = Write(<<args.line_end>>)]_vars
    /\ [](WritePending =>
              /\ sent # <<>> /\ sent[Len(sent)].tok = Piped
              /\ ops[1] = Write(as_bytes(sent[Len(sent)].text)))

\* C16 witness: the token of a segment with text is in the channel or
\* consumed, and nothing of the segment has been written yet
C16_Witness ==
    /\ Streaming /\ WritePending
    /\ sent # <<>> /\ sent[Len(sent)].tok = Piped /\ sent[Len(sent)].text # <<>>
    /\ pipe_writer = <<>> /\ child_stdin = <<>>

\* ------------------------------------------------------- failing runs
\* m has been written to standard error
Reported(m) == \E k \in 1..Len(stderr) : stderr[k] = m

\* how many times m has been written to standard error
Reports(m) == Cardinality({k \in 1..Len(stderr) : stderr[k] = m})

\* a spawn has failed: exec_cmd's error has been reported, or the consumer of
\* a solid run has panicked (exec_cmd_sync's expect is its only panic)
SpawnFailed == Reported("spawn") \/ (args.solid /\ Reported("panic"))

\* C11: once a subprocess could not be spawned, at startup of a streaming run
\* or for a segment of a solid run, the process has ended there with exit
\* code 1: main does not go on, and no other status is given.
C11_SpawnFailureIsFatal ==
    SpawnFailed => pc = "dead" /\ exit_code = 1

\* C12: in a streaming run, once the read of a unit has found the child's
\* stdout closed with no byte read, the consumer's wait ends with the exit of
\* the process with code 1, all the output of the earlier tokens flushed.
C12_EndOfFdFlushedExitOne ==
    [][(cpc = "end_of_fd" /\ cpc' # "end_of_fd") =>
           (exit_code' = 1 /\ output' = output \o writer)]_vars

\* C13: a send that fails because the consumer is gone is the last send of
\* the run: no second send is attempted (every failed send is reported).
C13_NoSendAfterFailure ==
    Reports("send") <= 1

\* C14: with every command spawned, in every step in which the consumer gives
\* up its buffered bytes because standard output is broken (the flush at
\* shutdown or before a fatal exit fails), the process ends with exit code 1
\* and nothing is reported.
C14_BrokenOutputSilentExit ==
    [][(args.broken /\ args.cmd # "missing" /\ writer # <<>> /\ writer' = <<>>) =>
           (exit_code' = 1 /\ stderr' = stderr)]_vars

\* C15: when the process exits with code 0 or 1, on whatever path after the
\* Forwarder was made, the teardown has run: the child's stdin is closed and
\* the consumer thread has ended and is joined.
C15_TeardownOnEveryExit ==
    [][(exit_code = -1 /\ exit_code' \in {0, 1} /\ pc # "start") =>
           (pc = "join" /\ ~stdin_open /\ cpc = "done")]_vars

\* ------------------------------------------------------- solid runs
\* the tokens the consumer has received
Consumed == SubSeq(sent, 1, Len(sent) - Len(chan))

\* C19: in a solid run a child is alive only inside one exec_cmd_sync of the
\* consumer (between its spawn and the end of its wait), the children spawned
\* are as many as the Solid tokens received, the consumer takes the next
\* token only with the results of all the tokens before written, and main
\* holds no pipe to a child.
C19_OneChildAtATime ==
    args.solid =>
        /\ child_alive => cpc \in {"write_all", "wait_with_output"}
        /\ stdin_open => cpc = "write_all"
        /\ spawned = Cardinality({k \in 1..Len(Consumed) : Consumed[k].tok.type = "Solid"})
        /\ cpc \in {"recv", "done"} =>
               output \o writer = Flatten([k \in 1..Len(Consumed) |-> TokOut(Consumed[k])])
        /\ pipe_writer = <<>>

\* the second child of a run alive, the result of the first written
C19_Witness ==
    /\ args.solid /\ spawned = 2 /\ child_alive
    /\ output \o writer # <<>>
    /\ \E k \in 1..Len(Consumed) - 1 : Consumed[k].tok.type = "Solid"

\* C20: while exec_cmd_sync runs, it or the child can take a step: the solid
\* run is never blocked for good, whatever the length of the segment.
C20_SolidRunCompletes ==
    cpc \in {"write_all", "wait_with_output"} => ENABLED SolidRun

\* --------------------------------------------------------------- dry runs
\* C21: in a dry run, solid or not, every token sent is a Literal or End, a
\* selected segment is the one Literal highlight prefix + text + suffix,
\* main has no write to a pipe to do and none done, and the consumer neither
\* reads a child's stdout nor spawns: there is no child.
C21_DryRunInert ==
    args.dryrun =>
        /\ \A k \in 1..Len(sent) :
               /\ sent[k].tok.type \in {"Channel", "EOF"}
               /\ sent[k].selected =>
                      sent[k].tok = Channel(args.hl[1] \o sent[k].text \o args.hl[2])
        /\ \A k \in 1..Len(ops) : ops[k].op = "send" /\ ops[k].tok.type \in {"Channel", "EOF"}
        /\ pipe_writer = <<>> /\ child_stdin = <<>> /\ ~stdin_open
        /\ cpc \in {"recv", "done"} /\ reader = <<>> /\ unit = <<>>
        /\ ~child_alive /\ spawned = 0

\* a finished dry run with the solid flag and a highlight, a selected segment
\* with text written between prefix and suffix
C21_Witness ==
    /\ args.dryrun /\ args.solid /\ args.hl[1] # <<>>
    /\ pc = "exit" /\ cpc = "done"
    /\ \E k \in 1..Len(sent) : sent[k].selected /\ sent[k].text # <<>>
    /\ output # args.input

\* ------------------------------------------------------------ the cursor
\* the first range whose high >= idx, the last range when there is none
FirstHigh(rs, idx) ==
    LET S == {k \in 1..Len(rs) : rs[k].high >= idx}
    IN  IF S = {} THEN Len(rs) ELSE Min(S)

\* C22: for the indices 1, 2, 3, ... asked in order, the answer of the cursor
\* is the answer of the test against all ranges, the cursor is on the first
\* range whose high >= index (the last range when none is), and from one
\* query to the next it stays or moves on by one range.
C22_CursorMembership ==
    proc = "cursor" =>
        \A k \in 1..Len(res) :
            /\ res[k].selected = InSet(ranges, k)
            /\ res[k].ri = FirstHigh(ranges, k)
            /\ k > 1 => res[k - 1].ri <= res[k].ri /\ res[k].ri <= res[k - 1].ri + 1

\* three ranges walked to the last one and past it: answers of both kinds
C22_Witness ==
    /\ proc = "cursor" /\ Len(ranges) = 3 /\ ri = 3
    /\ i > ranges[3].high
    /\ \E k \in 1..Len(res) : res[k].selected /\ res[k].ri = 2
    /\ ~res[Len(res)].selected

\* ------------------------------------------------- the two field modes
\* the occurrences of the literal delim in text from the offset from on, left
\* to right and not overlapping, as <<start, end>> (0-based)
RECURSIVE Occurrences(_, _, _)
Occurrences(text, delim, from) ==
    LET P == {p \in from..(Len(text) - Len(delim)) : Slice(text, p, p + Len(delim)) = delim}
    IN  IF P = {} THEN <<>>
        ELSE <<<<Min(P), Min(P) + Len(delim)>>>> \o Occurrences(text, delim, Min(P) + Len(delim))

Comma == <<44>>

\* C23: for every record and Range Set, field_proc with the delimiter ","
\* sends what field_regex_proc sends with the pattern "," , and
\* field_regex_proc with a pattern whose matches in the record are the
\* occurrences of "," sends what field_proc sends with ",": the same texts
\* with the same selected flags in the same order.
C23_FieldModesAgree ==
    /\ proc = "field_proc" /\ args.delimiter = Comma =>
           res = field_regex_proc(buf, [kind |-> "lit", c |-> 44], ranges)
    /\ (/\ proc = "field_regex_proc"
        /\ find_iter(args.re, from_utf8_lossy(buf)) = Occurrences(from_utf8_lossy(buf), Comma, 0)) =>
           res = field_proc(buf, Comma, ranges)

\* field_regex_proc on a record with a leading delimiter, two in a row and a
\* trailing one, a field selected and a field not
C23_Witness ==
    /\ proc = "field_regex_proc" /\ args.re = [kind |-> "lit", c |-> 44]
    /\ Len(buf) >= 3 /\ buf[1] = 44 /\ buf[2] = 44 /\ buf[Len(buf)] = 44
    /\ \E k \in 1..Len(res) : res[k].selected
    /\ \E k \in 1..Len(res) : ~res[k].selected /\ res[k].text # Comma
    /\ res = field_proc(buf, Comma, ranges)

\* ------------------------------------------------- the tokens of a consumer
\* C24: every token sent is one the consumer of the run has an arm for
\* (Solid only to the consumer of start_solid_output, Piped only to the
\* consumer of start_output), and the arm "Exit with bug." can never be taken.
C24_NoUnhandledToken ==
    /\ \A k \in 1..Len(sent) :
           /\ sent[k].tok.type = "Solid" => args.solid
           /\ sent[k].tok.type = "Piped" => ~args.solid
    /\ ~ENABLED RecvBug

\* a finished solid run with a command: its consumer has received Solid
\* tokens, and Literals and End
C24_Witness ==
    /\ args.solid /\ ~args.dryrun
    /\ pc = "exit" /\ cpc = "done" /\ chan = <<>>
    /\ \E k \in 1..Len(sent) : sent[k].tok.type = "Solid" /\ sent[k].text # <<>>
    /\ \E k \in 1..Len(sent) : sent[k].tok.type = "Channel" /\ sent[k].text # <<>>

\* ------------------------------------------------- tokens, units and reads
\* the segments of the Piped tokens of a history, in order
PipedTexts(h) == SelectSeq(h, LAMBDA t : t.tok = Piped)

\* the units written for them: segment + line_end each
RECURSIVE Units(_, _)
Units(h, le) ==
    IF h = <<>> THEN <<>> ELSE as_bytes(Head(h).text) \o <<le>> \o Units(Tail(h), le)

\* the line_end-delimited units in bytes
CountUnits(bytes, le) == Cardinality({k \in 1..Len(bytes) : bytes[k] = le})

\* C25: in a streaming run the bytes main has written to the child are, in
\* order, the units (segment + line_end) of the Piped tokens sent, all of
\* them but at most the unit of the last token; once End is sent they are all
\* written; the consumer has done one read_pipe for each Piped token it has
\* received (but the one it is in), and the k-th read has returned the
\* child's output for the unit of the k-th token.
C25_TokensAndUnits ==
    Streaming =>
        LET le == args.line_end
            piped == PipedTexts(sent)
            got == PipedTexts(Consumed)
            units == CountUnits(wrote, le)
        IN  /\ IsPrefix(wrote, Units(piped, le))
            /\ Len(piped) - units \in {0, 1}
            /\ (\E k \in 1..Len(sent) : sent[k].tok = EOF) => Len(piped) = units
            /\ Len(reads) = Len(got) - (IF cpc = "read_pipe" THEN 1 ELSE 0)
            /\ \A k \in 1..Len(reads) : reads[k] = Cmd(as_bytes(got[k].text)) \o <<le>>

\* a finished streaming run with two units written and two reads done, the
\* second of a segment with text
C25_Witness ==
    /\ Streaming /\ pc = "exit" /\ cpc = "done"
    /\ Len(PipedTexts(sent)) = 2 /\ CountUnits(wrote, args.line_end) = 2
    /\ Len(reads) = 2 /\ Len(reads[2]) > 1

====
